---- MODULE Spec2Model ----
(***************************************************************************)
(* Model of the nomad command-line tool (src/src/nomad/__main__.py).       *)
(*                                                                         *)
(* One behaviour is one CLI invocation: Init fixes the content of the      *)
(* cache directory and the process-wide osmnx settings as left by module   *)
(* import; an Invoke* action parses one command line and runs the command  *)
(* body up to its first external interaction (library call, prompt, or     *)
(* the first file of the cache scan); the remaining actions are the        *)
(* library's answer, the user's answer and one loop iteration per cached   *)
(* file.                                                                   *)
(*                                                                         *)
(* Text is a sequence of one-character strings, so that formatting         *)
(* (f-strings, str()) and re.search are computed rather than assumed.      *)
(***************************************************************************)
EXTENDS Integers, Sequences, FiniteSets, TLC

(* ------------------------------ bounds --------------------------------- *)

\* Largest number of *.json files under the cache root.
MaxFiles == 3

(* --------------------------- program constants ------------------------- *)

\* f"{key:<12} {value}\n": the field width of the key column.
KeyWidth == 12

\* NOMAD_CACHE_DIR = "./.nomad/osmnx/cache"
NOMAD_CACHE_DIR ==
    << ".", "/", ".", "n", "o", "m", "a", "d", "/", "o", "s", "m", "n", "x",
       "/", "c", "a", "c", "h", "e" >>

(* ------------------------------ text ----------------------------------- *)

Digit(n) == << "0", "1", "2", "3", "4", "5", "6", "7", "8", "9" >>[n + 1]

RECURSIVE IntStr(_)
\* str(n) of a non-negative int
IntStr(n) == IF n < 10 THEN << Digit(n) >>
             ELSE IntStr(n \div 10) \o << Digit(n % 10) >>

\* f"{s:<w}": left-justify, pad with spaces to width w, never truncate
PadLeft(s, w) == IF Len(s) >= w THEN s
                 ELSE s \o [i \in 1 .. (w - Len(s)) |-> " "]

\* The case folding of re.IGNORECASE on the letters the model uses.
Lower(c) ==
    CASE c = "A" -> "a"
      [] c = "B" -> "b"
      [] c = "T" -> "t"
      [] c = "F" -> "f"
      [] c = "N" -> "n"
      [] c = "Z" -> "z"
      [] OTHER   -> c

(* --------------------------- JSON values ------------------------------- *)

\* A parsed JSON value held by a key: t is the Python type after json.load.
VStr(s)   == [t |-> "str",  s |-> s,     n |-> 0, b |-> FALSE]
VInt(n)   == [t |-> "int",  s |-> << >>, n |-> n, b |-> FALSE]
VBool(b)  == [t |-> "bool", s |-> << >>, n |-> 0, b |-> b]
VNull     == [t |-> "NoneType", s |-> << >>, n |-> 0, b |-> FALSE]
\* nested containers; s is the text found inside the container
VList(s)  == [t |-> "list", s |-> s,     n |-> 0, b |-> FALSE]
VDict(s)  == [t |-> "dict", s |-> s,     n |-> 0, b |-> FALSE]

\* f"{value}" == str(value) for the scalar types
Str(v) ==
    CASE v.t = "str"      -> v.s
      [] v.t = "int"      -> IntStr(v.n)
      [] v.t = "bool"     -> IF v.b THEN << "T", "r", "u", "e" >>
                                    ELSE << "F", "a", "l", "s", "e" >>
      [] v.t = "NoneType" -> << "N", "o", "n", "e" >>

\* A JSON object: the sequence of its (key, value) items in document order.
Item(k, v) == [key |-> k, value |-> v]

\* A parsed document: a JSON object (items) or a JSON list of objects (elems).
JDict(items) == [kind |-> "dict", items |-> items, elems |-> << >>]
JList(elems) == [kind |-> "list", items |-> << >>, elems |-> elems]

\* len(x) of a parsed document
PyLen(x) == IF x.kind = "list" THEN Len(x.elems) ELSE Len(x.items)

(* ------------------------- cache directory ----------------------------- *)

\* What one *.json file under the cache root is: whether open() succeeds,
\* whether json.load succeeds (and what it returns), whether unlink succeeds.
File(readable, wellformed, deletable, json) ==
    [readable |-> readable, wellformed |-> wellformed,
     deletable |-> deletable, json |-> json]

K_name == << "n", "a", "m", "e" >>
K_ok   == << "o", "k" >>
K_tags == << "t", "a", "g", "s" >>
K_id   == << "i", "d" >>
K_geo  == << "g", "e", "o" >>

ObjPlace  == << Item(K_name, VStr(<< "A", "b" >>)), Item(K_ok, VBool(TRUE)),
                Item(K_tags, VList(<< "z", "z" >>)) >>
ObjNode   == << Item(K_id, VInt(7)), Item(K_geo, VDict(<< "A", "b" >>)) >>
ObjNested == << Item(K_tags, VList(<< "z", "z" >>)) >>

F_EmptyList  == File(TRUE, TRUE, TRUE, JList(<< >>))
F_EmptyDict  == File(TRUE, TRUE, TRUE, JDict(<< >>))
F_Place      == File(TRUE, TRUE, TRUE, JDict(ObjPlace))
F_NodeList   == File(TRUE, TRUE, TRUE, JList(<< ObjNode, ObjPlace >>))
F_Nested     == File(TRUE, TRUE, TRUE, JDict(ObjNested))
F_Malformed  == File(TRUE, FALSE, TRUE, JDict(<< >>))
F_Unreadable == File(FALSE, TRUE, TRUE, JDict(<< >>))
F_Locked     == File(TRUE, TRUE, FALSE, JDict(ObjNode))

FileKinds == { F_EmptyList, F_EmptyDict, F_Place, F_NodeList, F_Nested,
               F_Malformed, F_Unreadable, F_Locked }

\* The cache root's files in the order glob("**/*.json") enumerates them.
Directories == UNION { [1 .. n -> FileKinds] : n \in 0 .. MaxFiles }

\* str(pathlib.Path(cache_dir)): a leading "./" is dropped
PathOf(d) == IF Len(d) > 2 /\ d[1] = "." /\ d[2] = "/"
             THEN SubSeq(d, 3, Len(d)) ELSE d

\* str(data_path) of the k-th file glob yields under the cache root
PathStr(k) == PathOf(NOMAD_CACHE_DIR) \o << "/", "f" >> \o IntStr(k)
              \o << ".", "j", "s", "o", "n" >>

(* ------------------------- get_cache_data ------------------------------ *)

\* Faulty variant of DefaultFilter: the default filter lets empty documents
\* through.
DefaultFilterAcceptsAll(x) == TRUE

\* filter_func default: lambda x: len(x) != 0
DefaultFilter(x) == PyLen(x) # 0

\* The filter by name: "default" is the parameter's default, "all" is
\* remove_cache's lambda x: True.
FilterFunc(f, x) == IF f = "default" THEN DefaultFilter(x) ELSE TRUE

\* One iteration of the for loop of get_cache_data over file: the exception
\* it raises, "skip" when the filter rejects the document, "yield" otherwise.
ScanFile(file, f) ==
    IF ~file.readable THEN "OSError"
    ELSE IF ~file.wellformed THEN "JSONDecodeError"
    ELSE IF ~FilterFunc(f, file.json) THEN "skip"
    ELSE IF file.json.kind = "list" /\ Len(file.json.elems) = 0
         THEN "IndexError"
    ELSE "yield"

\* json_dict = json_data[0] if isinstance(json_data, list) else json_data
JsonDict(x) == IF x.kind = "list" THEN x.elems[1] ELSE x.items

(* ------------------------ inspect / search ----------------------------- *)

\* title = f"{'file_path':<12} {data_path}\n"
Title(k) ==
    PadLeft(<< "f", "i", "l", "e", "_", "p", "a", "t", "h" >>, KeyWidth)
    \o << " " >> \o PathStr(k) \o << "\n" >>

\* f"{key:<12} {value}\n"
FieldLine(key, value) ==
    PadLeft(key, KeyWidth) \o << " " >> \o Str(value) \o << "\n" >>

\* type(value) not in {dict, list}
IsScalar(value) == value.t \notin {"dict", "list"}

RECURSIVE Contents(_)
\* the loop over data.items() accumulating contents
Contents(items) ==
    IF items = << >> THEN << >>
    ELSE (IF IsScalar(Head(items).value)
          THEN FieldLine(Head(items).key, Head(items).value) ELSE << >>)
         \o Contents(Tail(items))

\* One pattern character against one text character under re.IGNORECASE:
\* "." is any character but a newline, any other character is itself.
AtomMatches(a, c) == IF a = "." THEN c # "\n" ELSE Lower(a) = Lower(c)

\* the pattern matches text starting at position pos
MatchAt(query, text, pos) ==
    /\ pos + Len(query) - 1 <= Len(text)
    /\ \A j \in 1 .. Len(query) : AtomMatches(query[j], text[pos + j - 1])

\* re.search(query, text, re.IGNORECASE) is not None, for patterns made of
\* literal characters and "."
ReSearch(query, text) ==
    \E pos \in 1 .. (Len(text) + 1) : MatchAt(query, text, pos)

\* Faulty variant of SearchTarget: the printed block (title included) is
\* searched.
SearchTargetWithTitle(title, contents) == title \o contents

\* the text search_cache hands to re.search
SearchTarget(title, contents) == contents

(* ----------------------------- state ----------------------------------- *)

VARIABLES
    dir,        \* the cache root's *.json files, in glob order
    present,    \* indices of dir still on the filesystem
    settings,   \* osmnx.settings, the library's process-wide settings
    argv,       \* the parsed command line of this invocation
    pc,         \* where the invocation is
    i,          \* how many entries of the glob the cache scan has consumed
    out,        \* what the invocation wrote, in order
    libCalls,   \* calls made into osmnx, with the settings in force at the call
    libResult,  \* how the library call ended, "" while there is none
    reply,      \* the user's answer to the confirmation prompt, "" before it
    exitCode    \* the process exit status once pc = "exited"

vars == << dir, present, settings, argv, pc, i, out, libCalls, libResult,
           reply, exitCode >>

\* Places named on the command line, and a download directory given with -d.
Locations == { << "A", "b" >>, << "x", " ", "y" >> }
CustomDir == << "/", "t", "m", "p", "/", "c" >>
DownloadDirs == { NOMAD_CACHE_DIR, CustomDir }

\* Patterns given to cache search.
Q_Empty    == << >>
Q_Case     == << "a", "B" >>
Q_Span     == << "b", "\n", "o" >>
Q_DotSpan  == << "b", ".", "o" >>
Q_Dot      == << "t", ".", "u", "e" >>
Q_Title    == << "j", "s", "o", "n" >>
Q_InNested == << "z", "z" >>
Queries == { Q_Empty, Q_Case, Q_Span, Q_DotSpan, Q_Dot, Q_Title, Q_InNested }

\* The coordinate pair a successful osmnx.geocoder.geocode returns.
Coords == << 48, 2 >>

\* One written line or block.
Line(stream, kind, text, path) ==
    [stream |-> stream, kind |-> kind, text |-> text, path |-> path]

NoArgv ==
    [cmd |-> "none", args |-> FALSE, dry_run |-> FALSE, debug |-> FALSE, cache |-> FALSE,
     pretty_print |-> FALSE, location |-> << >>, download_dir |-> << >>,
     query |-> << >>, empty |-> FALSE, force |-> FALSE]

\* osmnx.settings after `import nomad.__main__`: the library's defaults with
\* cache_folder overridden at import.
Init ==
    /\ dir \in Directories
    /\ present = DOMAIN dir
    /\ settings = [cache_folder |-> NOMAD_CACHE_DIR, cache_only_mode |-> FALSE,
                   use_cache |-> TRUE, log_console |-> FALSE,
                   log_level |-> "INFO"]
    /\ argv = NoArgv
    /\ pc = "shell"
    /\ i = 0
    /\ out = << >>
    /\ libCalls = << >>
    /\ libResult = ""
    /\ reply = ""
    /\ exitCode = 0

(* ------------------------------ main ----------------------------------- *)

\* The body of main: the debug flag turns on the library's console logging.
MainSettings(s, debug) ==
    IF debug THEN [s EXCEPT !.log_level = "DEBUG", !.log_console = TRUE]
    ELSE s

\* Faulty variant of NoArgsIsHelp: the option is off everywhere.
NoArgsIsHelpOff(cmd) == FALSE

\* no_args_is_help of the group or command, from its decorator.
NoArgsIsHelp(cmd) ==
    CASE cmd = "main"     -> TRUE
      [] cmd = "geocode"  -> TRUE
      [] cmd = "download" -> TRUE
      [] cmd = "cache"    -> TRUE
      [] cmd = "inspect"  -> FALSE
      [] cmd = "search"   -> TRUE
      [] cmd = "rm"       -> FALSE

\* The process ends with status code after writing lines.
Exit(code, lines) ==
    /\ pc' = "exited"
    /\ exitCode' = code
    /\ out' = out \o lines

\* An exception nothing catches: traceback on stderr, status 1.
Uncaught(exc) == Exit(1, << Line("stderr", "traceback", << >>, 0) >>)

\* `nomad` alone, or `nomad [-n] [-e] CMD` with nothing after a command that
\* needs arguments.  For a subcommand the body of main has already run.
InvokeNoArgs(cmd, dry_run, debug) ==
    /\ pc = "shell"
    /\ cmd \in {"main", "geocode", "download", "cache", "search"}
    /\ cmd = "main" => ~dry_run /\ ~debug
    /\ argv' = [NoArgv EXCEPT !.cmd = cmd, !.dry_run = dry_run,
                              !.debug = debug]
    /\ settings' = IF cmd = "main" /\ NoArgsIsHelp(cmd) THEN settings
                   ELSE MainSettings(settings, debug)
    /\ IF NoArgsIsHelp(cmd)
       THEN Exit(0, << Line("stdout", "usage", << >>, 0) >>)
       ELSE IF cmd = "main"
       THEN Exit(0, << >>)
       ELSE Exit(2, << Line("stderr", "usage_error", << >>, 0) >>)
    /\ UNCHANGED << dir, present, i, libCalls, libResult, reply >>

(* ----------------------------- geocode --------------------------------- *)

\* Faulty variant of GeocodeQueriesLibrary: dry_run is not looked at.
GeocodeQueriesLibraryAlways(dry_run) == TRUE

\* geocode asks the library unless dry_run is set
GeocodeQueriesLibrary(dry_run) == ~dry_run

InvokeGeocode(dry_run, debug, cache, pretty_print, location) ==
    /\ pc = "shell"
    /\ argv' = [NoArgv EXCEPT !.cmd = "geocode", !.args = TRUE, !.dry_run = dry_run,
                              !.debug = debug, !.cache = cache,
                              !.pretty_print = pretty_print,
                              !.location = location]
    /\ settings' = [MainSettings(settings, debug) EXCEPT !.use_cache = cache]
    /\ IF GeocodeQueriesLibrary(dry_run)
       THEN /\ libCalls' = Append(libCalls,
                                  [fn |-> "geocode", arg |-> location,
                                   settings |-> settings'])
            /\ pc' = "geocoding"
            /\ UNCHANGED << out, exitCode >>
       ELSE /\ Exit(0, << Line("stdout", "location", location, 0) >>)
            /\ UNCHANGED libCalls
    /\ UNCHANGED << dir, present, i, libResult, reply >>

\* Faulty variant of GeocodeEnd: no except clause, an unanswered query
\* ends in a traceback.
GeocodeEndUncaught(outcome, pretty_print) ==
    IF outcome = "ok"
    THEN [code |-> 0,
          lines |-> << Line("stdout",
                            IF pretty_print THEN "coords_pretty"
                            ELSE "coords", << >>, 0) >>]
    ELSE [code |-> 1, lines |-> << Line("stderr", "traceback", << >>, 0) >>]

\* What geocode does with the library's answer: [code, lines] of the exit.
GeocodeEnd(outcome, pretty_print) ==
    CASE outcome = "ok" ->
           [code |-> 0,
            lines |-> << Line("stdout",
                              IF pretty_print THEN "coords_pretty"
                              ELSE "coords", << >>, 0) >>]
      [] outcome = "InsufficientResponseError" ->
           [code |-> 1, lines |-> << Line("stderr", "lib_message", << >>, 0) >>]
      [] OTHER ->
           [code |-> 1, lines |-> << Line("stderr", "traceback", << >>, 0) >>]

GeocodeReturn(outcome) ==
    /\ pc = "geocoding"
    /\ outcome \in {"ok", "InsufficientResponseError", "OtherError"}
    /\ libResult' = outcome
    /\ LET e == GeocodeEnd(outcome, argv.pretty_print)
       IN  Exit(e.code, e.lines)
    /\ UNCHANGED << dir, present, settings, argv, i, libCalls, reply >>

(* ----------------------------- download -------------------------------- *)

\* Faulty variant of DownloadSettings: -d is not applied.
DownloadSettingsKeepsFolder(s, download_dir) ==
    [s EXCEPT !.cache_only_mode = TRUE]

\* osmnx.settings.cache_folder = download_dir; cache_only_mode = True
DownloadSettings(s, download_dir) ==
    [s EXCEPT !.cache_folder = download_dir, !.cache_only_mode = TRUE]

InvokeDownload(dry_run, debug, download_dir, location) ==
    /\ pc = "shell"
    /\ argv' = [NoArgv EXCEPT !.cmd = "download", !.args = TRUE, !.dry_run = dry_run,
                              !.debug = debug, !.download_dir = download_dir,
                              !.location = location]
    /\ settings' = DownloadSettings(MainSettings(settings, debug),
                                    download_dir)
    /\ libCalls' = Append(libCalls,
                          [fn |-> "graph_from_place", arg |-> location,
                           settings |-> settings'])
    /\ pc' = "downloading"
    /\ UNCHANGED << dir, present, i, out, libResult, reply, exitCode >>

\* What download does with the library's answer: [code, lines] of the exit.
DownloadEnd(outcome) ==
    CASE outcome = "CacheOnlyInterruptError" ->
           [code |-> 0, lines |-> << Line("stdout", "downloaded", << >>, 0) >>]
      [] outcome = "InsufficientResponseError" ->
           [code |-> 1, lines |-> << Line("stderr", "not_found", << >>, 0) >>]
      [] outcome = "return" ->
           [code |-> 0, lines |-> << >>]
      [] OTHER ->
           [code |-> 1, lines |-> << Line("stderr", "traceback", << >>, 0) >>]

DownloadReturn(outcome) ==
    /\ pc = "downloading"
    /\ outcome \in {"CacheOnlyInterruptError", "InsufficientResponseError",
                    "return", "OtherError"}
    /\ libResult' = outcome
    /\ LET e == DownloadEnd(outcome)
       IN  Exit(e.code, e.lines)
    /\ UNCHANGED << dir, present, settings, argv, i, libCalls, reply >>

(* ------------------------- cache inspect ------------------------------- *)

\* print(title + contents) for the k-th file
Block(k) == Line("stdout", "block", Title(k) \o Contents(JsonDict(dir[k].json)), k)

InvokeInspect(dry_run, debug) ==
    /\ pc = "shell"
    /\ argv' = [NoArgv EXCEPT !.cmd = "inspect", !.args = TRUE, !.dry_run = dry_run,
                              !.debug = debug]
    /\ settings' = MainSettings(settings, debug)
    /\ pc' = "inspect"
    /\ UNCHANGED << dir, present, i, out, libCalls, libResult, reply,
                    exitCode >>

\* One iteration of inspect_cache's loop over get_cache_data().
InspectStep ==
    /\ pc = "inspect"
    /\ i < Len(dir)
    /\ LET k == i + 1
           r == ScanFile(dir[k], "default")
       IN  CASE r = "yield" -> /\ out' = Append(out, Block(k))
                               /\ i' = k
                               /\ UNCHANGED << pc, exitCode >>
             [] r = "skip"  -> /\ i' = k
                               /\ UNCHANGED << pc, out, exitCode >>
             [] OTHER       -> /\ Uncaught(r)
                               /\ i' = k
    /\ UNCHANGED << dir, present, settings, argv, libCalls, libResult, reply >>

(* -------------------------- cache search ------------------------------- *)

InvokeSearch(dry_run, debug, query) ==
    /\ pc = "shell"
    /\ argv' = [NoArgv EXCEPT !.cmd = "search", !.args = TRUE, !.dry_run = dry_run,
                              !.debug = debug, !.query = query]
    /\ settings' = MainSettings(settings, debug)
    /\ pc' = "search"
    /\ UNCHANGED << dir, present, i, out, libCalls, libResult, reply,
                    exitCode >>

\* One iteration of search_cache's loop over get_cache_data().
SearchStep ==
    /\ pc = "search"
    /\ i < Len(dir)
    /\ LET k == i + 1
           r == ScanFile(dir[k], "default")
       IN  CASE r = "yield" ->
                  /\ out' = IF ReSearch(argv.query,
                                        SearchTarget(Title(k),
                                            Contents(JsonDict(dir[k].json))))
                            THEN Append(out, Block(k)) ELSE out
                  /\ i' = k
                  /\ UNCHANGED << pc, exitCode >>
             [] r = "skip"  -> /\ i' = k
                               /\ UNCHANGED << pc, out, exitCode >>
             [] OTHER       -> /\ Uncaught(r)
                               /\ i' = k
    /\ UNCHANGED << dir, present, settings, argv, libCalls, libResult, reply >>

(* ---------------------------- cache rm --------------------------------- *)

\* The filter remove_cache gives get_cache_data: lambda x: True without
\* --empty, the default filter with it.
RmFilter(empty) == IF ~empty THEN "all" ELSE "default"

\* Faulty variant of AfterPrompt: the answer is not looked at.
AfterPromptIgnoresAnswer(answer) == "deleting"

\* click.confirm(..., abort=True): a declined prompt raises Abort, an
\* accepted one returns True and the loop runs.
AfterPrompt(answer) == IF answer THEN "deleting" ELSE "aborted"

\* Faulty variant of Unlink: the path is echoed but the file is not removed.
UnlinkNothing(files, k) == files

\* data_path.unlink() of the k-th file
Unlink(files, k) == files \ {k}

InvokeRm(dry_run, debug, empty, force) ==
    /\ pc = "shell"
    /\ argv' = [NoArgv EXCEPT !.cmd = "rm", !.args = TRUE, !.dry_run = dry_run,
                              !.debug = debug, !.empty = empty,
                              !.force = force]
    /\ settings' = MainSettings(settings, debug)
    /\ IF ~force
       THEN /\ pc' = "prompt"
            /\ out' = Append(out, Line("stdout", "prompt", << >>, 0))
       ELSE /\ pc' = "deleting"
            /\ out' = Append(out, Line("stdout", "now_deleting", << >>, 0))
    /\ UNCHANGED << dir, present, i, libCalls, libResult, reply, exitCode >>

\* The user's answer to "Do you want to delete ...?".
RmConfirm(answer) ==
    /\ pc = "prompt"
    /\ reply' = IF answer THEN "y" ELSE "n"
    /\ IF AfterPrompt(answer) = "aborted"
       THEN Exit(1, << Line("stderr", "aborted", << >>, 0) >>)
       ELSE /\ pc' = "deleting"
            /\ out' = Append(out, Line("stdout", "confirmed", << >>, 0))
            /\ UNCHANGED exitCode
    /\ UNCHANGED << dir, present, settings, argv, i, libCalls, libResult >>

\* One iteration of remove_cache's loop over cache_gen: the generator reads
\* and filters the next file, the loop body unlinks it and echoes its path.
RmStep ==
    /\ pc = "deleting"
    /\ i < Len(dir)
    /\ LET k == i + 1
           r == ScanFile(dir[k], RmFilter(argv.empty))
       IN  CASE r = "yield" /\ dir[k].deletable ->
                  /\ present' = Unlink(present, k)
                  /\ out' = Append(out, Line("stdout", "deleted", PathStr(k), k))
                  /\ i' = k
                  /\ UNCHANGED << pc, exitCode >>
             [] r = "yield" /\ ~dir[k].deletable ->
                  /\ Uncaught("OSError")
                  /\ i' = k
                  /\ UNCHANGED present
             [] r = "skip" ->
                  /\ i' = k
                  /\ UNCHANGED << pc, out, exitCode, present >>
             [] OTHER ->
                  /\ Uncaught(r)
                  /\ i' = k
                  /\ UNCHANGED present
    /\ UNCHANGED << dir, settings, argv, libCalls, libResult, reply >>

\* The generator is exhausted: the command returns and the process exits 0.
ScanDone ==
    /\ pc \in {"inspect", "search", "deleting"}
    /\ i = Len(dir)
    /\ Exit(0, << >>)
    /\ UNCHANGED << dir, present, settings, argv, i, libCalls, libResult,
                    reply >>

(* --------------------------- specification ----------------------------- *)

Next ==
    \/ \E cmd \in {"main", "geocode", "download", "cache", "search"},
          dry_run \in BOOLEAN, debug \in BOOLEAN :
          InvokeNoArgs(cmd, dry_run, debug)
    \/ \E dry_run \in BOOLEAN, debug \in BOOLEAN, cache \in BOOLEAN,
          pretty_print \in BOOLEAN, location \in Locations :
          InvokeGeocode(dry_run, debug, cache, pretty_print, location)
    \/ \E outcome \in {"ok", "InsufficientResponseError", "OtherError"} :
          GeocodeReturn(outcome)
    \/ \E dry_run \in BOOLEAN, debug \in BOOLEAN,
          download_dir \in DownloadDirs, location \in Locations :
          InvokeDownload(dry_run, debug, download_dir, location)
    \/ \E outcome \in {"CacheOnlyInterruptError", "InsufficientResponseError",
                       "return", "OtherError"} :
          DownloadReturn(outcome)
    \/ \E dry_run \in BOOLEAN, debug \in BOOLEAN : InvokeInspect(dry_run, debug)
    \/ InspectStep
    \/ \E dry_run \in BOOLEAN, debug \in BOOLEAN, query \in Queries :
          InvokeSearch(dry_run, debug, query)
    \/ SearchStep
    \/ \E dry_run \in BOOLEAN, debug \in BOOLEAN, empty \in BOOLEAN,
          force \in BOOLEAN :
          InvokeRm(dry_run, debug, empty, force)
    \/ \E answer \in BOOLEAN : RmConfirm(answer)
    \/ RmStep
    \/ ScanDone

Spec == Init /\ [][Next]_vars

(* ---------------------- vocabulary of the claims ------------------------ *)

\* positions of out holding a line of the given kind
LinesOf(kind) == { j \in DOMAIN out : out[j].kind = kind }

\* the files a line of the given kind was written for
PathsOf(kind) == { out[j].path : j \in LinesOf(kind) }

\* the files removed from the filesystem so far
Removed == (DOMAIN dir) \ present

\* the file opens, parses and can be unlinked
Sound(f) == f.readable /\ f.wellformed /\ f.deletable

\* the parsed document is falsy (empty list or empty object)
IsEmptyDoc(f) == f.readable /\ f.wellformed /\ PyLen(f.json) = 0

\* the process ended by an uncaught exception
Crashed == pc = "exited" /\ exitCode = 1 /\ LinesOf("traceback") # {}

\* the removal went ahead: forced, or confirmed at the prompt
WentAhead == argv.force \/ reply = "y"

\* the formatted lines of the scalar fields of an object, one per field
ScalarLines(items) ==
    LET scalars == SelectSeq(items, LAMBDA it : it.value.t \notin {"dict", "list"})
    IN  [j \in DOMAIN scalars |-> FieldLine(scalars[j].key, scalars[j].value)]

RECURSIVE Concat(_)
Concat(lines) == IF lines = << >> THEN << >>
                 ELSE Head(lines) \o Concat(Tail(lines))

\* the object cache search formats for the k-th file
Normalized(k) == IF dir[k].json.kind = "list" THEN Head(dir[k].json.elems)
                 ELSE dir[k].json.items

\* the files cache search has gone through that hold a non-empty document
Searched == { k \in 1 .. i : dir[k].readable /\ dir[k].wellformed
                             /\ PyLen(dir[k].json) # 0 }

(* ------------------------------ claims --------------------------------- *)

\* C1 (as claimed): cache rm --force --empty, run to completion, has deleted
\* exactly the files whose document is empty and kept every non-empty one.
C1_ForceEmptyDeletesExactlyEmpty ==
    (argv.cmd = "rm" /\ argv.force /\ argv.empty /\ pc = "exited"
     /\ exitCode = 0)
    => Removed = { k \in DOMAIN dir : IsEmptyDoc(dir[k]) }

\* C2 (as claimed): cache rm without --empty, once forced or confirmed, on a
\* directory whose files all open, parse and can be unlinked, ends without
\* an uncaught failure with every file deleted and its path echoed.
C2_RmAllDeletesEveryFile ==
    (argv.cmd = "rm" /\ ~argv.empty /\ WentAhead /\ pc = "exited"
     /\ \A k \in DOMAIN dir : Sound(dir[k]))
    => /\ exitCode = 0
       /\ present = {}
       /\ PathsOf("deleted") = DOMAIN dir

\* C3: once the user has declined the prompt of cache rm (with or without
\* --empty), the command has aborted with a non-zero status, every file of
\* the cache root is still there and no Deleted: line was written; nothing
\* is deleted while the prompt is pending either.
C3_DeclineDeletesNothing ==
    /\ pc = "prompt" => present = DOMAIN dir /\ LinesOf("deleted") = {}
    /\ reply = "n" =>
          /\ pc = "exited" /\ exitCode # 0
          /\ present = DOMAIN dir
          /\ LinesOf("deleted") = {}

C3_Witness ==
    /\ argv.cmd = "rm" /\ ~argv.force /\ reply = "n" /\ pc = "exited"
    /\ Len(dir) >= 2

\* C4: when cache inspect has run to completion, it has written exactly one
\* block per file holding a non-empty document, titled with that file's
\* path, and none for a file holding an empty document.
C4_InspectOneBlockPerNonEmpty ==
    (argv.cmd = "inspect" /\ pc = "exited" /\ exitCode = 0)
    => LET nonEmpty == { k \in DOMAIN dir : ~IsEmptyDoc(dir[k]) }
       IN  /\ Len(out) = Cardinality(nonEmpty)
           /\ PathsOf("block") = nonEmpty
           /\ \A j \in DOMAIN out :
                 /\ out[j].kind = "block"
                 /\ SubSeq(out[j].text, KeyWidth + 2,
                           KeyWidth + 1 + Len(PathStr(out[j].path)))
                    = PathStr(out[j].path)

C4_Witness ==
    /\ argv.cmd = "inspect" /\ pc = "exited" /\ exitCode = 0
    /\ \E k \in DOMAIN dir : IsEmptyDoc(dir[k])
    /\ Cardinality(PathsOf("block")) >= 2

\* C5 (as claimed): cache search writes the block of a non-empty file if and
\* only if the pattern matches within one single scalar field's line.
C5_SearchMatchesSingleLine ==
    argv.cmd = "search" =>
       \A k \in Searched :
          k \in PathsOf("block")
          <=> \E j \in DOMAIN ScalarLines(Normalized(k)) :
                 ReSearch(argv.query, ScalarLines(Normalized(k))[j])

\* C5 (amended): cache search writes the block of a non-empty file if and
\* only if the pattern matches somewhere in the concatenation of the scalar
\* fields' lines; the title line and nested fields are not part of that
\* text, a match may run over a line end, and a document without scalar
\* fields is written when the pattern matches the empty text.
C5_SearchMatchesConcatenation ==
    argv.cmd = "search" =>
       \A k \in Searched :
          k \in PathsOf("block")
          <=> ReSearch(argv.query, Concat(ScalarLines(Normalized(k))))

C5_Witness ==
    /\ argv.cmd = "search" /\ pc = "exited" /\ exitCode = 0
    /\ argv.query = Q_Span
    /\ PathsOf("block") # {}
    /\ Searched \ PathsOf("block") # {}

\* C6: once the library has reported the location as not found, geocode and
\* download have ended with a non-zero status and their error message (the
\* library's for geocode, "could not be found" for download) on stderr, and
\* neither coordinates nor the download success line was written.
C6_NotFoundExitsNonZero ==
    libResult = "InsufficientResponseError" =>
       /\ pc = "exited" /\ exitCode # 0
       /\ argv.cmd = "geocode" =>
             out = << Line("stderr", "lib_message", << >>, 0) >>
       /\ argv.cmd = "download" =>
             out = << Line("stderr", "not_found", << >>, 0) >>
       /\ LinesOf("coords") \cup LinesOf("coords_pretty")
            \cup LinesOf("downloaded") = {}

C6_Witness ==
    /\ libResult = "InsufficientResponseError" /\ argv.cmd = "geocode"
    /\ argv.pretty_print /\ pc = "exited"

\* C7: every call of the library's place download is made with cache_folder
\* set to the -d directory (the default cache directory without -d) and
\* cache_only_mode on, and both settings hold from the call to the end of
\* the command, however the call ends.
C7_DownloadSettingsHold ==
    (argv.cmd = "download" /\ argv.args) =>
       /\ Len(libCalls) = 1
       /\ libCalls[1].fn = "graph_from_place"
       /\ libCalls[1].settings.cache_folder = argv.download_dir
       /\ libCalls[1].settings.cache_only_mode
       /\ settings.cache_folder = argv.download_dir
       /\ settings.cache_only_mode

C7_Witness ==
    /\ argv.cmd = "download" /\ argv.download_dir = CustomDir
    /\ pc = "exited" /\ libResult = "InsufficientResponseError"

C9_NoArgsPrintsUsage ==
    (argv.cmd \in {"main", "geocode"} /\ ~argv.args) =>
       /\ pc = "exited" /\ exitCode = 0
       /\ out = << Line("stdout", "usage", << >>, 0) >>
       /\ libCalls = << >>
       /\ i = 0
       /\ present = DOMAIN dir

C9_Witness ==
    /\ argv.cmd = "geocode" /\ ~argv.args /\ pc = "exited" /\ dir # << >>

\* C10: during cache rm the echoed Deleted: paths are exactly the files
\* removed so far, in order; no file the scan has not reached is touched;
\* and when the k-th file fails (read, parse or unlink), that file is still
\* there, the files deleted before it stay deleted and nothing returns.
C10_RemovalNotTransactional ==
    argv.cmd = "rm" =>
       /\ PathsOf("deleted") = Removed
       /\ Cardinality(LinesOf("deleted")) = Cardinality(Removed)
       /\ \A k \in DOMAIN dir : k > i => k \in present
       /\ \A a, b \in LinesOf("deleted") :
             a < b => out[a].path < out[b].path
       /\ Crashed =>
             /\ i \in present
             /\ Removed = { k \in 1 .. (i - 1) :
                              ScanFile(dir[k], RmFilter(argv.empty)) = "yield" }

C10_Witness ==
    /\ argv.cmd = "rm" /\ Crashed
    /\ Removed # {}
    /\ i < Len(dir)

====
